---- MODULE Spec2Model ----
(***************************************************************************)
(* Client-side cache reconciliation of the Vive-Trading frontend:          *)
(*   - data_sum, the delta merger of services/POST/LoginfetchAllData.jsx   *)
(*   - LoginfetchAllData (cached and uncached variants) driven by          *)
(*     Home.fetchData's retry loop and its 3-minute interval               *)
(*   - the cache check effect of Home (sequential-date and version check)  *)
(***************************************************************************)
EXTENDS Integers, Sequences, FiniteSets, TLC

\* ------------------------------------------------------------------ bounds
MaxExBlocks == 2     \* user blocks in the list passed to data_sum as ex_data
MaxInBlocks == 2     \* user blocks in the list passed to data_sum as new_data
MaxBlockLen == 2     \* observations in one user block
MaxRuns == 2         \* fetchData invocations that may be in flight at once
MaxTime == 1         \* server clock values (cursor tokens) that occur
MaxPayload == 1      \* user blocks in one /api/wallet response
MaxStoreObs == 2     \* observations a merged list may hold in total
MaxEntries == 3      \* entries in the data of a "Chart_data" record
MaxDate == 6         \* latest date of an entry, in half days after the first

Users == {"A", "B"}

VARIABLES
    m_pc,        \* position of the data_sum call under test
    m_ex,        \* the array object passed as ex_data (its current contents)
    m_new,       \* the array object passed as new_data (its current contents)
    m_ret,       \* the value data_sum returned
    m_before,    \* contents of ex_data when the call was made (history)
    m_newBefore  \* contents of new_data when the call was made (history)

mergeVars == <<m_pc, m_ex, m_new, m_ret, m_before, m_newBefore>>

VARIABLES
    impl,          \* which module Home imports LoginfetchAllData from
    mounted,       \* Home's mount effect has run (fetchData called, interval set)
    store,         \* the record under key 1 of object store "min3"
    pc,            \* per fetchData invocation: where it is suspended
    attempt,       \* per invocation: let attempt
    latest_time,   \* per invocation: latest_time of the running call
    ex_data,       \* per invocation: ex_data (sum_data is the same array)
    resp_time,     \* per invocation: data.time of the response being saved
    ret,           \* the last return of LoginfetchAllData: to whom, by which
                   \* path, and its check (its allData is in finalAllData)
    finalAllData,  \* let finalAllData of the effect closure (one per mount):
                   \* the allData of the last return
    loading,       \* Home's loading state (the Loading screen is shown)
    InitData       \* Home's InitData state

pipeOwn == <<impl, mounted, store, pc, attempt, latest_time, ex_data,
             resp_time, ret, finalAllData, loading>>
pipeVars == <<pipeOwn, InitData>>

VARIABLES
    checkImpl,     \* which Home is built: the one that checks the cache once
                   \* and asks versionCheck, or the one that re-checks it
                   \* every 3 minutes
    chart,         \* the record under key 1 of object store "Chart_data"
    c_pc,          \* where the cache check is suspended
    cachedData,    \* const cachedData of the running cache check
    isVersion,     \* what the last versionCheck call resolved to, and how
    isCacheExisit, \* Home's isCacheExisit state
    lastTime,      \* Home's lastTime state
    f_pc,          \* where the refetch effect is suspended
    insertdata     \* const insertdata of the refetch effect

cacheVars == <<checkImpl, chart, c_pc, cachedData, isVersion, isCacheExisit,
               lastTime, f_pc, insertdata>>

\* fetchAllData (components/Http_Get.jsx) and useSocketData (components/Socket.jsx)
VARIABLES
    n_pc,            \* "off", "fetching", "reading", "returned", "rejected"
    stream,          \* the response body: the characters the server sends
    pos,             \* how many of them reader.read() has delivered so far
    accumulated,     \* the partial line kept between reads
    walletEntries,   \* every record of every accepted payload, in order
    groupedByTime,   \* the Map from time key to group, in insertion order
    n_errors,        \* lines logged by the inner catch ("JSON parse error")
    n_ret,           \* what fetchAllData returned
    lastMessage,     \* the last frame the socket delivered
    datalist,        \* the state of useSocketData
    s_threw          \* whether handling lastMessage ended in the catch

streamVars == <<n_pc, stream, pos, accumulated, walletEntries, groupedByTime,
                n_errors, n_ret, lastMessage, datalist, s_threw>>

\* the mapping of one record (components/Socket.jsx, services/POST/LoginfetchAllData.jsx)
VARIABLES
    fld_pc,          \* "off", "call", "mapped"
    fld_site,        \* which mapper runs: "socket" or "login"
    fld_item,        \* the record received (item / dayArray)
    fld_out          \* the record the mapper built

fieldVars == <<fld_pc, fld_site, fld_item, fld_out>>

\* the effects of Home on [InitData], [LiveData] and [MappingData]
\* (pages/home.jsx lines 366-396)
VARIABLES
    LiveData,        \* null until the effect on [InitData] sets it
    MappingData,     \* [] until the effect on [LiveData] sets it
    sender_chart,
    sender_analyze,
    sender_wallet,
    depInit,         \* the InitData the effect on [InitData] last ran for
    depLive,         \* the LiveData the effect on [LiveData] last ran for
    depMap           \* the MappingData the effect on [MappingData] last ran for

projVars == <<LiveData, MappingData, sender_chart, sender_analyze, sender_wallet,
              depInit, depLive, depMap>>

\* getDB and the three operations built on it (unnamed/part_001, part_011)
VARIABLES
    db_pc,           \* "off", "idle", "open1", "deleting", "open2", "tx", "done"
    db_name,         \* "DB" (part_001) or "VT_DB" (part_011)
    db_op,           \* the running operation: saveUpdate, loadUpdate, clearStore
    db_arg,          \* the data given to saveUpdate
    db_exists,       \* whether the database exists
    db_record,       \* what the store holds under the key
    db_trace,        \* what the running getDB has done so far, in order
    db_getDB,        \* "pending", "returned" or "thrown"
    db_result        \* what the operation gave its caller

dbVars == <<db_pc, db_name, db_op, db_arg, db_exists, db_record, db_trace,
            db_getDB, db_result>>

\* DashBoard and the part of React and of the browser it runs on
\* (pages/dashboard.jsx lines 14-52)
VARIABLES
    d_pc,            \* "off", or "on" once DashBoard is mounted
    d_lanes,         \* how the renderer groups updates: "split" or "unified"
    d_select,        \* the select state of the last commit
    d_search,        \* location.search of the last commit (its select parameter)
    d_pendSelect,    \* the queued setSelect updates not rendered yet
    d_pendSearch,    \* the queued location updates not rendered yet
    d_fx,            \* the effects of the last commit that have not run yet
    d_history,       \* the session history of the tab
    d_index,         \* the position of the current entry in d_history
    d_events         \* how many clicks and traversals have happened

dashVars == <<d_pc, d_lanes, d_select, d_search, d_pendSelect, d_pendSearch,
              d_fx, d_history, d_index, d_events>>

\* the parts of the view other than loading, merging, caching and streaming
viewVars == <<fieldVars, projVars, dbVars, dashVars>>

coreVars == <<mergeVars, pipeVars, cacheVars, streamVars>>

vars == <<mergeVars, pipeVars, cacheVars, streamVars, viewVars>>

\* ------------------------------------------------------------ observations
\* One element of a per-user array sent by /api/wallet (a "dayArray").
Obs(u, t) == [userId |-> u, time |-> t, total |-> 100 + t, usemodel |-> "gpt"]

SeqsUpTo(S, n) == UNION {[1..k -> S] : k \in 0..n}

RECURSIVE Flatten(_)
Flatten(ss) == IF ss = <<>> THEN <<>> ELSE Head(ss) \o Flatten(Tail(ss))

\* number of observations in a list of user blocks
Size(list) == Len(Flatten(list))

\* ------------------------------------------------------- value shapes
\* the fetchData invocations that may be in flight
Runs == 1..MaxRuns

\* a React state that is null until it is first set
Null == [isNull |-> TRUE, value |-> <<>>]
Val(x) == [isNull |-> FALSE, value |-> x]

\* a cursor (cachedData.time, lastTime): undefined, a string or a number;
\* truthy = FALSE is the empty string or 0
Cursor(kind, truthy) == [kind |-> kind, truthy |-> truthy]
Undefined == Cursor("undefined", FALSE)
Cursors == {Undefined} \cup {Cursor(k, b) : k \in {"string", "number"}, b \in BOOLEAN}

\* dayArr[0]?.time as new Date(...) reads it: a date, or Invalid Date when
\* the entry has no element 0 or that element has no time
DateOf(d) == [valid |-> TRUE, t |-> d]
InvalidDate == [valid |-> FALSE, t |-> 0]
Entries == {DateOf(d) : d \in 0..MaxDate} \cup {InvalidDate}

Absent == [exists |-> FALSE, time |-> Undefined, data |-> <<>>]
Record(time, data) == [exists |-> TRUE, time |-> time, data |-> data]

\* ------------------------------------------- parts that are not running
\* Each specification below runs one part of the page; the variables of
\* the other parts stay as these predicates set them.
MergeIdle ==
    /\ m_pc = "off"
    /\ m_ex = <<>>
    /\ m_new = <<>>
    /\ m_ret = <<>>
    /\ m_before = <<>>
    /\ m_newBefore = <<>>

PipeIdle ==
    /\ impl = "cached"
    /\ mounted = FALSE
    /\ store = [time |-> 0, data |-> <<>>]
    /\ pc = [r \in Runs |-> "idle"]
    /\ attempt = [r \in Runs |-> 0]
    /\ latest_time = [r \in Runs |-> 0]
    /\ ex_data = [r \in Runs |-> <<>>]
    /\ resp_time = [r \in Runs |-> 0]
    /\ ret = [run |-> 0, via |-> "none", check |-> "undefined"]
    /\ finalAllData = <<>>
    /\ loading = TRUE
    /\ InitData = Null

CacheIdle ==
    /\ checkImpl = "versioned"
    /\ chart = Absent
    /\ c_pc = "off"
    /\ cachedData = Absent
    /\ isVersion = [asked |-> FALSE, value |-> FALSE, reply |-> "none"]
    /\ isCacheExisit = TRUE
    /\ lastTime = Cursor("string", FALSE)
    /\ f_pc = "idle"
    /\ insertdata = Absent

\* lastTime of fetchAllData: null, or the time of a record
NoTime == [isNull |-> TRUE, value |-> 0]
TimeVal(t) == [isNull |-> FALSE, value |-> t]

StreamIdle ==
    /\ n_pc = "off"
    /\ stream = <<>>
    /\ pos = 0
    /\ accumulated = <<>>
    /\ walletEntries = <<>>
    /\ groupedByTime = <<>>
    /\ n_errors = 0
    /\ n_ret = [via |-> "none", allData |-> <<>>, lastTime |-> NoTime]
    /\ lastMessage = <<>>
    /\ datalist = <<>>
    /\ s_threw = FALSE

\* a field of a record: absent (undefined) or a number
NoField == [has |-> FALSE, v |-> 0]
Field(x) == [has |-> TRUE, v |-> x]

FieldIdle ==
    /\ fld_pc = "off"
    /\ fld_site = "socket"
    /\ fld_item = [btc |-> NoField, bit |-> NoField, doge |-> NoField, dog |-> NoField]
    /\ fld_out = [bit |-> NoField, dog |-> NoField]

\* the states of Home after the first render: every effect has run once
\* and found nothing to do
ProjIdle ==
    /\ LiveData = Null
    /\ MappingData = <<>>
    /\ sender_chart = <<>>
    /\ sender_analyze = <<>>
    /\ sender_wallet = <<>>
    /\ depInit = Null
    /\ depLive = Null
    /\ depMap = <<>>

DbIdle ==
    /\ db_pc = "off"
    /\ db_name = "DB"
    /\ db_op = "none"
    /\ db_arg = "none"
    /\ db_exists = FALSE
    /\ db_record = "absent"
    /\ db_trace = <<>>
    /\ db_getDB = "pending"
    /\ db_result = "none"

NoPend == "nopend"
NoFx == [e1 |-> FALSE, e2 |-> FALSE, select |-> "Account", search |-> "absent"]

DashIdle ==
    /\ d_pc = "off"
    /\ d_lanes = "split"
    /\ d_select = "Account"
    /\ d_search = "absent"
    /\ d_pendSelect = NoPend
    /\ d_pendSearch = NoPend
    /\ d_fx = NoFx
    /\ d_history = <<>>
    /\ d_index = 0
    /\ d_events = 0

ViewIdle ==
    /\ FieldIdle
    /\ ProjIdle
    /\ DbIdle
    /\ DashIdle

\* --------------------------------------------------------------- data_sum
\* newUserArr[0].userId / userArr[0].userId
UserIdOf(blk) == blk[1].userId

FindIndex_FirstBlock(ex, uid) == IF Len(ex) > 0 THEN 1 ELSE 0

\* ex_data.find(userArr => userArr[0].userId === userId): index of the first
\* block whose first observation carries userId, 0 when find returns undefined
FindIndex(ex, uid) ==
    IF \E i \in 1..Len(ex) : UserIdOf(ex[i]) = uid
    THEN CHOOSE i \in 1..Len(ex) :
            /\ UserIdOf(ex[i]) = uid
            /\ \A j \in 1..(i - 1) : UserIdOf(ex[j]) # uid
    ELSE 0

MergeOne_Prepend(ex, blk) ==
    LET i == FindIndex(ex, UserIdOf(blk))
    IN  IF i > 0 THEN [ex EXCEPT ![i] = blk \o @] ELSE Append(ex, blk)

\* body of the forEach callback: push(...newUserArr) onto the block found,
\* or push the incoming block itself
MergeOne(ex, blk) ==
    LET i == FindIndex(ex, UserIdOf(blk))
    IN  IF i > 0 THEN [ex EXCEPT ![i] = @ \o blk] ELSE Append(ex, blk)

\* contents of ex_data after forEach has processed the first k incoming blocks
RECURSIVE PrefixSum(_, _, _)
PrefixSum(ex, new, k) ==
    IF k = 0 THEN ex ELSE MergeOne(PrefixSum(ex, new, k - 1), new[k])

\* index of the first incoming block on which newUserArr[0].userId throws
\* (an empty block: newUserArr[0] is undefined), 0 when none does
ThrowIndex(new) ==
    IF \E k \in 1..Len(new) : new[k] = <<>>
    THEN CHOOSE k \in 1..Len(new) :
            new[k] = <<>> /\ \A j \in 1..(k - 1) : new[j] # <<>>
    ELSE 0

\* return ex_data: the array passed in, after the pushes
data_sum(ex, new) == PrefixSum(ex, new, Len(new))

\* An incoming block that found no match was pushed into ex_data as the same
\* array object, so later pushes for that userId land in it too.
IncomingAfter(ex, new, upto) ==
    [j \in 1..Len(new) |->
        IF j <= upto /\ FindIndex(PrefixSum(ex, new, j - 1), UserIdOf(new[j])) = 0
        THEN LET r == PrefixSum(ex, new, upto)
             IN  r[FindIndex(r, UserIdOf(new[j]))]
        ELSE new[j]]

\* ------------------------------------------------------------- constants
maxRetries == 3

\* ----------------------------------------------------------- conversions
\* Times of observations are minutes after 2025-11-01T00:00Z.
\* formatToYYMMDDHHMM: the UTC fields of the date as the digits YYYYMMDDHHMM;
\* the digits 202511 are the same for every modelled time and are left out.
formatToYYMMDDHHMM(t) ==
    (1 + t \div 1440) * 10000 + ((t % 1440) \div 60) * 100 + (t % 60)

\* parseTime of services/Http_Post.jsx: Date.UTC(...) of the fields, in ms
\* (after the same base date)
parseTime(t) == t * 60000

\* the observation the server records at clock value k
ObsMinute(k) == 1439 * k

\* --------------------------------------------------------- UserSeries
\* lines 82-116: one UserSeries per user block. total stands for the fields
\* copied as they are (why, position, total, non, bit, eth, doge, sol, xrp).
MapItem(item) ==
    [userId |-> item[1].userId,
     hasUsemodel |-> TRUE,
     usemodel |-> [i \in 1..Len(item) |-> item[i].usemodel],
     total |-> [i \in 1..Len(item) |-> item[i].total],
     time |-> [i \in 1..Len(item) |-> formatToYYMMDDHHMM(item[i].time)]]

MapAll(sum) == [k \in 1..Len(sum) |-> MapItem(sum[k])]

\* services/Http_Post.jsx lines 129-163
MapItemUTC(item) ==
    [userId |-> item[1].userId,
     hasUsemodel |-> TRUE,
     usemodel |-> [i \in 1..Len(item) |-> item[i].usemodel],
     total |-> [i \in 1..Len(item) |-> item[i].total],
     time |-> [i \in 1..Len(item) |-> parseTime(item[i].time)]]

MapAllUTC(data) == [k \in 1..Len(data) |-> MapItemUTC(data[k])]

\* defaultAllData of services/POST/LoginfetchAllData.jsx: it has no usemodel
defaultAllData ==
    <<[userId |-> "default_user_01", hasUsemodel |-> FALSE, usemodel |-> <<>>,
       total |-> <<0>>, time |-> <<0>>]>>

\* defaultAllData of services/Http_Post.jsx: usemodel: [null]
defaultAllDataHttpPost ==
    <<[userId |-> "default_user_01", hasUsemodel |-> TRUE, usemodel |-> <<"null">>,
       total |-> <<0>>, time |-> <<0>>]>>

DefaultOf(variant) ==
    IF variant = "cached" THEN defaultAllData ELSE defaultAllDataHttpPost

\* lines 75-76 and 82-118 on {data: "Nodata"}: sum_data is ex_data when it
\* has more than one user block and defaultAllData otherwise; defaultAllData
\* holds objects, so item.map throws on it and the catch returns the default
LoginfetchNodata(ex) ==
    IF Len(ex) > 1
    THEN [allData |-> MapAll(ex), check |-> "true"]
    ELSE [allData |-> defaultAllData, check |-> "false"]

StoreAfterNodata_Cleared(rec) == [time |-> 0, data |-> <<>>]

\* lines 75-76: the Nodata branch calls neither saveUpdate nor clearStore
StoreAfterNodata(rec) == rec

\* --------------------------------------------------------- /api/wallet
BlocksAt(k) == {<<Obs(u, ObsMinute(k))>> : u \in Users} \cup {<<>>}
PayloadsAt(k) == SeqsUpTo(BlocksAt(k), MaxPayload)

\* ------------------------------------------------ Home.fetchData runs
CallPc_FetchFirst == "fetching"

\* where a call of LoginfetchAllData first suspends: on loadUpdate in the
\* cached variant, on fetch in the other
CallPc == IF impl = "cached" THEN "loading" ELSE "fetching"

\* the effects on [InitData], [LiveData] and [MappingData], lines 366-396,
\* after setInitData(allData): an array is truthy, so it is copied to LiveData
\* and MappingData, and setLoading(false) runs when the mapped list is not
\* empty
LoadingAfter(allData) == IF Len(allData) > 0 THEN FALSE ELSE loading

\* fetchData lines 334-345: LoginfetchAllData returned {allData, check}
Returned(r, via, allData, check) ==
    /\ ret' = [run |-> r, via |-> via, check |-> check]
    /\ finalAllData' = allData
    /\ latest_time' = [latest_time EXCEPT ![r] = 0]
    /\ ex_data' = [ex_data EXCEPT ![r] = <<>>]
    /\ resp_time' = [resp_time EXCEPT ![r] = 0]
    /\ IF check = "false"
       THEN /\ attempt' = [attempt EXCEPT ![r] = @ + 1]
            /\ pc' = [pc EXCEPT ![r] = "backoff"]
            /\ UNCHANGED <<InitData, loading>>
       ELSE /\ InitData' = Val(allData)
            /\ loading' = LoadingAfter(allData)
            /\ attempt' = [attempt EXCEPT ![r] = 0]
            /\ pc' = [pc EXCEPT ![r] = "idle"]

\* the mount effect, lines 326-363: fetchData() and setInterval(fetchData)
Mount ==
    /\ ~mounted
    /\ mounted' = TRUE
    /\ pc' = [pc EXCEPT ![1] = CallPc]
    /\ UNCHANGED <<impl, store, attempt, latest_time, ex_data, resp_time, ret,
                   finalAllData, loading, InitData, mergeVars, cacheVars, streamVars, viewVars>>

Tick_UntilReady(r) ==
    /\ mounted
    /\ loading
    /\ pc[r] = "idle"
    /\ \A q \in 1..(r - 1) : pc[q] # "idle"
    /\ pc' = [pc EXCEPT ![r] = CallPc]
    /\ UNCHANGED <<impl, mounted, store, attempt, latest_time, ex_data,
                   resp_time, ret, finalAllData, loading, InitData, mergeVars, cacheVars, streamVars, viewVars>>

\* the interval fires fetchData; earlier invocations may still be running
Tick(r) ==
    /\ mounted
    /\ pc[r] = "idle"
    /\ \A q \in 1..(r - 1) : pc[q] # "idle"
    /\ pc' = [pc EXCEPT ![r] = CallPc]
    /\ UNCHANGED <<impl, mounted, store, attempt, latest_time, ex_data,
                   resp_time, ret, finalAllData, loading, InitData, mergeVars, cacheVars, streamVars, viewVars>>

\* lines 56-68: loadUpdate resolved; latest_time, ex_data; fetch is issued
LoadDone(r) ==
    /\ pc[r] = "loading"
    /\ latest_time' = [latest_time EXCEPT ![r] = store.time]
    /\ ex_data' = [ex_data EXCEPT ![r] = store.data]
    /\ pc' = [pc EXCEPT ![r] = "fetching"]
    /\ UNCHANGED <<impl, mounted, store, attempt, resp_time, ret, finalAllData,
                   loading, InitData, mergeVars, cacheVars, streamVars, viewVars>>

\* loadUpdate rejected (getDB could not open the database): lines 121-124
LoadFails(r) ==
    /\ pc[r] = "loading"
    /\ Returned(r, "failed", defaultAllData, "false")
    /\ UNCHANGED <<impl, mounted, store, mergeVars, cacheVars, streamVars, viewVars>>

\* fetch rejected, res.ok false, or res.json() rejected
FetchFails(r) ==
    /\ pc[r] = "fetching"
    /\ Returned(r, "failed", DefaultOf(impl), "false")
    /\ UNCHANGED <<impl, mounted, store, mergeVars, cacheVars, streamVars, viewVars>>

\* cached variant, body {data: "Nodata"}
RespNodata(r) ==
    /\ impl = "cached"
    /\ pc[r] = "fetching"
    /\ store' = StoreAfterNodata(store)
    /\ LET out == LoginfetchNodata(ex_data[r])
       IN  Returned(r, "nodata", out.allData, out.check)
    /\ UNCHANGED <<impl, mounted, mergeVars, cacheVars, streamVars, viewVars>>

\* cached variant, body {time: k, data: payload}: data_sum, then saveUpdate
\* is awaited; an empty block makes data_sum throw into the catch
RespData(r, k, payload) ==
    /\ impl = "cached"
    /\ pc[r] = "fetching"
    /\ Size(ex_data[r]) + Size(payload) <= MaxStoreObs
    /\ IF ThrowIndex(payload) > 0
       THEN Returned(r, "failed", defaultAllData, "false")
       ELSE /\ ex_data' = [ex_data EXCEPT ![r] = data_sum(ex_data[r], payload)]
            /\ resp_time' = [resp_time EXCEPT ![r] = k]
            /\ pc' = [pc EXCEPT ![r] = "saving"]
            /\ UNCHANGED <<attempt, latest_time, ret, finalAllData, loading,
                           InitData>>
    /\ UNCHANGED <<impl, mounted, store, mergeVars, cacheVars, streamVars, viewVars>>

SaveDone_OldCursor(r, ok) ==
    /\ pc[r] = "saving"
    /\ store' = IF ok THEN [time |-> latest_time[r], data |-> ex_data[r]] ELSE store
    /\ Returned(r, "merged", MapAll(ex_data[r]), "true")
    /\ UNCHANGED <<impl, mounted, mergeVars, cacheVars, streamVars, viewVars>>

\* line 79 resolved: the put is done (or saveUpdate caught an error and
\* returned false, ok = FALSE); lines 82-118 map sum_data and return
SaveDone(r, ok) ==
    /\ pc[r] = "saving"
    /\ store' = IF ok THEN [time |-> resp_time[r], data |-> ex_data[r]] ELSE store
    /\ Returned(r, "merged", MapAll(ex_data[r]), "true")
    /\ UNCHANGED <<impl, mounted, mergeVars, cacheVars, streamVars, viewVars>>

\* services/Http_Post.jsx lines 111-114: a falsy or empty body
RespEmpty(r) ==
    /\ impl = "uncached"
    /\ pc[r] = "fetching"
    /\ Returned(r, "empty", defaultAllDataHttpPost, "undefined")
    /\ UNCHANGED <<impl, mounted, store, mergeVars, cacheVars, streamVars, viewVars>>

\* services/Http_Post.jsx lines 129-167: a non-empty array of user blocks;
\* an empty block makes the destructuring of item[0] throw into the catch
RespArray(r, payload) ==
    /\ impl = "uncached"
    /\ pc[r] = "fetching"
    /\ Len(payload) > 0
    /\ IF ThrowIndex(payload) > 0
       THEN Returned(r, "failed", defaultAllDataHttpPost, "false")
       ELSE Returned(r, "mapped", MapAllUTC(payload), "true")
    /\ UNCHANGED <<impl, mounted, store, mergeVars, cacheVars, streamVars, viewVars>>

\* the 200 ms wait is over: the while condition, lines 332 and 353-355
BackoffDone(r) ==
    /\ pc[r] = "backoff"
    /\ IF attempt[r] < maxRetries
       THEN /\ pc' = [pc EXCEPT ![r] = CallPc]
            /\ UNCHANGED <<attempt, InitData, loading>>
       ELSE /\ InitData' = Val(finalAllData)
            /\ loading' = LoadingAfter(finalAllData)
            /\ attempt' = [attempt EXCEPT ![r] = 0]
            /\ pc' = [pc EXCEPT ![r] = "idle"]
    /\ UNCHANGED <<impl, mounted, store, latest_time, ex_data, resp_time, ret,
                   finalAllData, mergeVars, cacheVars, streamVars, viewVars>>

Init ==
    /\ ViewIdle
    /\ MergeIdle
    /\ CacheIdle
    /\ StreamIdle
    /\ impl \in {"cached", "uncached"}
    /\ mounted = FALSE
    /\ store = [time |-> 0, data |-> <<>>]
    /\ pc = [r \in Runs |-> "idle"]
    /\ attempt = [r \in Runs |-> 0]
    /\ latest_time = [r \in Runs |-> 0]
    /\ ex_data = [r \in Runs |-> <<>>]
    /\ resp_time = [r \in Runs |-> 0]
    /\ ret = [run |-> 0, via |-> "none", check |-> "undefined"]
    /\ finalAllData = <<>>
    /\ loading = TRUE
    /\ InitData = Null

Next ==
    \/ Mount
    \/ \E r \in Runs : Tick(r)
    \/ \E r \in Runs : LoadDone(r)
    \/ \E r \in Runs : LoadFails(r)
    \/ \E r \in Runs : FetchFails(r)
    \/ \E r \in Runs : RespNodata(r)
    \/ \E r \in Runs, k \in 1..MaxTime : \E payload \in PayloadsAt(k) :
          RespData(r, k, payload)
    \/ \E r \in Runs, ok \in BOOLEAN : SaveDone(r, ok)
    \/ \E r \in Runs : RespEmpty(r)
    \/ \E r \in Runs, k \in 1..MaxTime : \E payload \in PayloadsAt(k) :
          RespArray(r, payload)
    \/ \E r \in Runs : BackoffDone(r)

Spec == Init /\ [][Next]_vars

\* ----------------------------- one invocation against any stored record
\* what saveUpdate("min3", 1, {time, data: sum_data}) can have stored: blocks
\* of observations the server sent, one block per user id (data_sum appends
\* to the block of a user id that is there already)
StoredBlocks(u) ==
    {b \in SeqsUpTo({Obs(u, ObsMinute(k)) : k \in 1..MaxTime}, MaxStoreObs) : b # <<>>}

StoredLists ==
    {d \in SeqsUpTo(UNION {StoredBlocks(u) : u \in Users}, Cardinality(Users)) :
        /\ Size(d) <= MaxStoreObs
        /\ \A i, j \in 1..Len(d) : i # j => UserIdOf(d[i]) # UserIdOf(d[j])}

CallInit ==
    /\ ViewIdle
    /\ MergeIdle
    /\ CacheIdle
    /\ StreamIdle
    /\ impl = "cached"
    /\ mounted = FALSE
    /\ store \in {[time |-> 0, data |-> <<>>]}
                 \cup {[time |-> t, data |-> d] : t \in 1..MaxTime, d \in StoredLists}
    /\ pc = [r \in Runs |-> "idle"]
    /\ attempt = [r \in Runs |-> 0]
    /\ latest_time = [r \in Runs |-> 0]
    /\ ex_data = [r \in Runs |-> <<>>]
    /\ resp_time = [r \in Runs |-> 0]
    /\ ret = [run |-> 0, via |-> "none", check |-> "undefined"]
    /\ finalAllData = <<>>
    /\ loading = TRUE
    /\ InitData = Null

\* the invocation the mount effect starts, alone: no timer tick
CallNext ==
    \/ Mount
    \/ LoadDone(1)
    \/ LoadFails(1)
    \/ FetchFails(1)
    \/ RespNodata(1)
    \/ \E k \in 1..MaxTime : \E payload \in PayloadsAt(k) : RespData(1, k, payload)
    \/ \E ok \in BOOLEAN : SaveDone(1, ok)
    \/ BackoffDone(1)

SpecCall == CallInit /\ [][CallNext]_vars

\* ------------------------------ a mounted page whose requests all end
\* One invocation at a time: the interval fires only when the invocation
\* before it has ended. The event loop runs every timer and every settled
\* promise, and every request is taken to end (with a response or an error),
\* so some step is always taken.
LiveNext ==
    \/ Mount
    \/ Tick(1)
    \/ LoadDone(1)
    \/ LoadFails(1)
    \/ FetchFails(1)
    \/ RespNodata(1)
    \/ \E k \in 1..MaxTime : \E payload \in PayloadsAt(k) : RespData(1, k, payload)
    \/ \E ok \in BOOLEAN : SaveDone(1, ok)
    \/ RespEmpty(1)
    \/ \E k \in 1..MaxTime : \E payload \in PayloadsAt(k) : RespArray(1, payload)
    \/ BackoffDone(1)

SpecLive == Init /\ [][LiveNext]_vars /\ WF_vars(LiveNext)

\* ------------------------------------------------ teardown of Home
Unmount_Cancels ==
    /\ mounted
    /\ mounted' = FALSE
    /\ pc' = [r \in Runs |-> "idle"]
    /\ attempt' = [r \in Runs |-> 0]
    /\ UNCHANGED <<impl, store, latest_time, ex_data, resp_time, ret,
                   finalAllData, loading, InitData, mergeVars, cacheVars, streamVars, viewVars>>

\* home.jsx line 362, the cleanup of the mount effect: clearInterval and
\* nothing else; fetchData holds no AbortController and checks no flag, so
\* the promises of a run in flight stay pending and their continuations run
Unmount ==
    /\ mounted
    /\ mounted' = FALSE
    /\ UNCHANGED <<impl, pc, store, attempt, latest_time, ex_data, resp_time, ret,
                   finalAllData, loading, InitData, mergeVars, cacheVars, streamVars, viewVars>>

\* the mount of the one Home instance this specification follows
FirstMount ==
    /\ pc[1] = "idle"
    /\ ret.via = "none"
    /\ Mount

\* One Home: it is mounted once, the timer starts runs while it is mounted
\* and it can be unmounted at any moment after that.
TeardownNext ==
    \/ FirstMount
    \/ Unmount
    \/ Tick(1)
    \/ LoadDone(1)
    \/ LoadFails(1)
    \/ FetchFails(1)
    \/ RespNodata(1)
    \/ \E k \in 1..MaxTime : \E payload \in PayloadsAt(k) : RespData(1, k, payload)
    \/ \E ok \in BOOLEAN : SaveDone(1, ok)
    \/ RespEmpty(1)
    \/ \E k \in 1..MaxTime : \E payload \in PayloadsAt(k) : RespArray(1, payload)
    \/ BackoffDone(1)

SpecTeardown == Init /\ [][TeardownNext]_vars /\ WF_vars(TeardownNext)

\* ------------------------------------------------ the cache of Home
\* 1000 * 60 * 60 * 24 ms, in the unit of the modelled dates (half days)
DayLength == 2

OneDayApart_AtLeast(prev, curr) ==
    prev.valid /\ curr.valid /\ curr.t - prev.t >= DayLength

\* lines 95-98: diffDays === 1; with an Invalid Date the difference is NaN
OneDayApart(prev, curr) ==
    prev.valid /\ curr.valid /\ curr.t - prev.t = DayLength

\* lines 92-99: allDates.every((date, i) => i === 0 || diffDays === 1)
isSequential(data) ==
    \A i \in 2..Len(data) : OneDayApart(data[i - 1], data[i])

KeepsCache_IfTruthy(v) == v

\* lines 107-111: a truthy isVersion marks the cache as not existing
KeepsCache(v) == ~v

\* versionCheck, services/Http_Post.jsx lines 1-24: an empty version throws
\* before the request, a version that is no string has no toISOString and
\* throws too, a failed request throws; every throw resolves to false.
\* reply is what fetch and res.json() give: "true", "false" or "fail".
versionCheck(version, reply) ==
    IF ~version.truthy THEN [asked |-> FALSE, value |-> FALSE]
    ELSE IF version.kind # "string" THEN [asked |-> FALSE, value |-> FALSE]
    ELSE [asked |-> TRUE, value |-> (reply = "true")]

Invalidate_NoRefetch ==
    /\ isCacheExisit' = FALSE
    /\ UNCHANGED <<f_pc, InitData, lastTime>>

\* setIscacheExisit(false); the effect on [isCacheExisit] runs when the value
\* changed, and starts by awaiting clearStore
Invalidate ==
    /\ isCacheExisit' = FALSE
    /\ f_pc' = IF isCacheExisit THEN "clearing" ELSE f_pc
    /\ UNCHANGED <<InitData, lastTime>>

Install_DataOnly(rec) ==
    /\ InitData' = Val(rec.data)
    /\ UNCHANGED <<lastTime, isCacheExisit, f_pc>>

\* setInitData(cachedData.data); setLastTime(cachedData.time)
Install(rec) ==
    /\ InitData' = Val(rec.data)
    /\ lastTime' = rec.time
    /\ UNCHANGED <<isCacheExisit, f_pc>>

Unusable_OnlyAbsent(rec) == ~rec.exists

\* lines 84-90 and 116-119: loadUpdate gave no record (if (cachedData) fails)
\* or typeof cachedData.time === "undefined"
Unusable(rec) == ~rec.exists \/ rec.time.kind = "undefined"

\* the mount effect starts the cache check: loadUpdate("Chart_data", 1)
CacheMount ==
    /\ c_pc = "init"
    /\ c_pc' = "loading"
    /\ UNCHANGED <<checkImpl, chart, cachedData, isVersion, isCacheExisit,
                   lastTime, f_pc, insertdata, InitData, pipeOwn, mergeVars, streamVars, viewVars>>

\* unnamed/part_005 line 113: the interval runs the cache check again
CacheTick ==
    /\ checkImpl = "periodic"
    /\ c_pc \in {"done", "rejected"}
    /\ c_pc' = "loading"
    /\ UNCHANGED <<checkImpl, chart, cachedData, isVersion, isCacheExisit,
                   lastTime, f_pc, insertdata, InitData, pipeOwn, mergeVars, streamVars, viewVars>>

\* loadUpdate resolved: pages/home.jsx lines 83-106 and 116-119,
\* unnamed/part_005 lines 83-108
CacheLoadDone ==
    /\ c_pc = "loading"
    /\ IF Unusable(chart) \/ ~isSequential(chart.data)
       THEN /\ Invalidate
            /\ c_pc' = "done"
            /\ UNCHANGED cachedData
       ELSE IF checkImpl = "versioned"
       THEN /\ cachedData' = chart
            /\ c_pc' = "version"
            /\ UNCHANGED <<InitData, lastTime, isCacheExisit, f_pc>>
       ELSE /\ Install(chart)
            /\ c_pc' = "done"
            /\ UNCHANGED cachedData
    /\ UNCHANGED <<checkImpl, chart, isVersion, insertdata, pipeOwn, mergeVars, streamVars, viewVars>>

\* loadUpdate rejected: the async function ends with nothing set
CacheLoadFails ==
    /\ c_pc = "loading"
    /\ c_pc' = "rejected"
    /\ UNCHANGED <<checkImpl, chart, cachedData, isVersion, isCacheExisit,
                   lastTime, f_pc, insertdata, InitData, pipeOwn, mergeVars, streamVars, viewVars>>

\* versionCheck resolved: pages/home.jsx lines 106-114
CacheVersionDone(reply) ==
    /\ c_pc = "version"
    /\ LET v == versionCheck(cachedData.time, reply)
       IN  /\ isVersion' = [asked |-> v.asked, value |-> v.value,
                            reply |-> IF v.asked THEN reply ELSE "none"]
           /\ IF KeepsCache(v.value) THEN Install(cachedData) ELSE Invalidate
    /\ c_pc' = "done"
    /\ cachedData' = Absent
    /\ UNCHANGED <<checkImpl, chart, insertdata, pipeOwn, mergeVars, streamVars, viewVars>>

\* the refetch effect, pages/home.jsx lines 123-143: clearStore resolved
\* (ok = FALSE: it caught an error and returned false), then the fetch
RefetchClearDone(ok) ==
    /\ f_pc = "clearing"
    /\ chart' = IF ok THEN Absent ELSE chart
    /\ f_pc' = "fetching"
    /\ UNCHANGED <<checkImpl, c_pc, cachedData, isVersion, isCacheExisit,
                   lastTime, insertdata, InitData, pipeOwn, mergeVars, streamVars, viewVars>>

\* LoginfetchAllData resolved with n UserSeries (n = 0: the request failed).
\* A UserSeries is an object without element 0, so the cache check reads an
\* Invalid Date from it. The Home that checks once gets {allData, check} of
\* services/Http_Post.jsx: cachlastTime is undefined and a failure gives the
\* one default series. The Home that re-checks gets {allData, cachlastTime}
\* of unnamed/part_015 or null, and destructuring null throws into the catch.
RefetchFetchDone(n) ==
    /\ f_pc = "fetching"
    /\ IF checkImpl = "versioned"
       THEN /\ insertdata' = Record(Undefined,
                                    [i \in 1..(IF n = 0 THEN 1 ELSE n) |-> InvalidDate])
            /\ f_pc' = "saving"
       ELSE IF n = 0
       THEN /\ f_pc' = "done"
            /\ UNCHANGED insertdata
       ELSE /\ insertdata' = Record(Cursor("number", TRUE), [i \in 1..n |-> InvalidDate])
            /\ f_pc' = "saving"
    /\ UNCHANGED <<checkImpl, chart, c_pc, cachedData, isVersion, isCacheExisit,
                   lastTime, InitData, pipeOwn, mergeVars, streamVars, viewVars>>

\* services/Http_Post.jsx lines 111-114: the body was empty; the call
\* resolves with the default series and cachlastTime 0
RefetchFetchEmpty ==
    /\ f_pc = "fetching"
    /\ checkImpl = "versioned"
    /\ insertdata' = Record(Cursor("number", FALSE), <<InvalidDate>>)
    /\ f_pc' = "saving"
    /\ UNCHANGED <<checkImpl, chart, c_pc, cachedData, isVersion, isCacheExisit,
                   lastTime, InitData, pipeOwn, mergeVars, streamVars, viewVars>>

\* saveUpdate resolved: lines 130-137
RefetchSaveDone(ok) ==
    /\ f_pc = "saving"
    /\ IF ok
       THEN /\ chart' = insertdata
            /\ InitData' = Val(insertdata.data)
            /\ lastTime' = insertdata.time
       ELSE UNCHANGED <<chart, InitData, lastTime>>
    /\ f_pc' = "done"
    /\ insertdata' = Absent
    /\ UNCHANGED <<checkImpl, c_pc, cachedData, isVersion, isCacheExisit,
                   pipeOwn, mergeVars, streamVars, viewVars>>

\* the record a page load may find: none, or one written by an earlier
\* session of any build of the page
CacheInit ==
    /\ ViewIdle
    /\ MergeIdle
    /\ PipeIdle
    /\ StreamIdle
    /\ checkImpl \in {"versioned", "periodic"}
    /\ chart \in {Absent} \cup
                 {Record(t, d) : t \in Cursors, d \in SeqsUpTo(Entries, MaxEntries)}
    /\ c_pc = "init"
    /\ cachedData = Absent
    /\ isVersion = [asked |-> FALSE, value |-> FALSE, reply |-> "none"]
    /\ isCacheExisit = TRUE
    /\ lastTime = Cursor("string", FALSE)
    /\ f_pc = "idle"
    /\ insertdata = Absent

CacheNext ==
    \/ CacheMount
    \/ CacheTick
    \/ CacheLoadDone
    \/ CacheLoadFails
    \/ \E reply \in {"true", "false", "fail"} : CacheVersionDone(reply)
    \/ \E ok \in BOOLEAN : RefetchClearDone(ok)
    \/ \E n \in 0..MaxEntries : RefetchFetchDone(n)
    \/ RefetchFetchEmpty
    \/ \E ok \in BOOLEAN : RefetchSaveDone(ok)

SpecCache == CacheInit /\ [][CacheNext]_vars

\* ------------------------------------------------- data_sum under test
ExShapes == SeqsUpTo([u : Users, n : 1..MaxBlockLen], MaxExBlocks)
InShapes == SeqsUpTo([u : Users, n : 0..MaxBlockLen], MaxInBlocks)

\* observations are labelled by where they come from, so that every one of
\* them is distinguishable in the result
ExList(sh) == [i \in 1..Len(sh) |-> [k \in 1..sh[i].n |-> Obs(sh[i].u, 10 * i + k)]]
InList(sh) == [j \in 1..Len(sh) |-> [k \in 1..sh[j].n |-> Obs(sh[j].u, 100 + 10 * j + k)]]

MergeInit ==
    /\ ViewIdle
    /\ PipeIdle
    /\ CacheIdle
    /\ StreamIdle
    /\ m_pc = "call"
    /\ m_ex \in {ExList(sh) : sh \in ExShapes}
    /\ m_new \in {InList(sh) : sh \in InShapes}
    /\ m_ret = <<>>
    /\ m_before = m_ex
    /\ m_newBefore = m_new

DataSumReturn ==
    /\ m_pc = "call"
    /\ ThrowIndex(m_new) = 0
    /\ m_pc' = "done"
    /\ m_before' = m_ex
    /\ m_newBefore' = m_new
    /\ m_ex' = data_sum(m_ex, m_new)
    /\ m_ret' = data_sum(m_ex, m_new)
    /\ m_new' = IncomingAfter(m_ex, m_new, Len(m_new))
    /\ UNCHANGED <<pipeVars, cacheVars, streamVars, viewVars>>

DataSumThrow ==
    /\ m_pc = "call"
    /\ ThrowIndex(m_new) > 0
    /\ m_pc' = "threw"
    /\ m_before' = m_ex
    /\ m_newBefore' = m_new
    /\ m_ex' = PrefixSum(m_ex, m_new, ThrowIndex(m_new) - 1)
    /\ m_new' = IncomingAfter(m_ex, m_new, ThrowIndex(m_new) - 1)
    /\ UNCHANGED <<m_ret, pipeVars, cacheVars, streamVars, viewVars>>

MergeNext == DataSumReturn \/ DataSumThrow

SpecMerge == MergeInit /\ [][MergeNext]_vars

\* ================================================================ claims
UidsOf(list) == {UserIdOf(list[i]) : i \in 1..Len(list)}
BlockFor(list, u) == IF FindIndex(list, u) = 0 THEN <<>> ELSE list[FindIndex(list, u)]
IncomingFor(new, u) == Flatten(SelectSeq(new, LAMBDA b : UserIdOf(b) = u))
IsPrefix(s, t) == Len(s) <= Len(t) /\ SubSeq(t, 1, Len(s)) = s
FirstIn(new, u) == CHOOSE j \in 1..Len(new) :
    UserIdOf(new[j]) = u /\ \A k \in 1..(j - 1) : UserIdOf(new[k]) # u

\* C5: data_sum merges by userId. For every user the block of the result is
\* the existing block of that user followed by all incoming observations of
\* that user in incoming order; users without an existing block get a new
\* entry after the existing ones, in order of first appearance; every
\* existing block keeps its position and its observations as a prefix.
C5_MergeByUserId ==
    m_pc = "done" =>
        /\ \A u \in Users :
              BlockFor(m_ret, u) = BlockFor(m_before, u) \o IncomingFor(m_newBefore, u)
        /\ Len(m_ret) = Len(m_before)
                         + Cardinality(UidsOf(m_newBefore) \ UidsOf(m_before))
        /\ \A i \in 1..Len(m_before) :
              /\ IsPrefix(m_before[i], m_ret[i])
              /\ i # FindIndex(m_before, UserIdOf(m_before[i])) => m_ret[i] = m_before[i]
        /\ \A i, j \in (Len(m_before) + 1)..Len(m_ret) :
              i < j => FirstIn(m_newBefore, UserIdOf(m_ret[i]))
                       < FirstIn(m_newBefore, UserIdOf(m_ret[j]))

C5_Witness ==
    /\ m_pc = "done"
    /\ \E u \in UidsOf(m_before) \cap UidsOf(m_newBefore) :
          Len(BlockFor(m_ret, u)) >= Len(BlockFor(m_before, u)) + 2
    /\ UidsOf(m_newBefore) \ UidsOf(m_before) # {}

\* C6 as stated: any incoming list whose user ids are all absent from the
\* existing list yields existing.length + incoming.length entries and leaves
\* the pre-existing blocks unchanged.
C6_DisjointAddsAll ==
    (m_pc = "done" /\ UidsOf(m_newBefore) \cap UidsOf(m_before) = {}) =>
        /\ Len(m_ret) = Len(m_before) + Len(m_newBefore)
        /\ \A i \in 1..Len(m_before) : m_ret[i] = m_before[i]

\* C6 amended: the same, for an incoming list whose blocks carry pairwise
\* distinct user ids.
C6_DisjointDistinctAddsAll ==
    (/\ m_pc = "done"
     /\ UidsOf(m_newBefore) \cap UidsOf(m_before) = {}
     /\ Cardinality(UidsOf(m_newBefore)) = Len(m_newBefore)) =>
        /\ Len(m_ret) = Len(m_before) + Len(m_newBefore)
        /\ \A i \in 1..Len(m_before) : m_ret[i] = m_before[i]

C6_Witness ==
    /\ m_pc = "done"
    /\ UidsOf(m_newBefore) \cap UidsOf(m_before) = {}
    /\ Cardinality(UidsOf(m_newBefore)) = Len(m_newBefore)
    /\ Len(m_newBefore) >= 1
    /\ Len(m_before) >= 1
    /\ Len(m_ret) = Len(m_before) + Len(m_newBefore)

\* C7: data_sum does not mutate its inputs: after the call the list passed as
\* existing, and each of its blocks, has the contents it had before the call.
C7_InputsNotMutated ==
    m_pc = "done" => m_ex = m_before

\* ---------------------------------------------- claims on the fetch runs
\* the step in which invocation r gets {data: "Nodata"} and its call returns
NodataStep(r) ==
    /\ impl = "cached"
    /\ pc[r] = "fetching"
    /\ pc'[r] \in {"idle", "backoff"}
    /\ ret'.run = r
    /\ ret'.via = "nodata"

\* C1: after 3 consecutive failed attempts an invocation makes no fourth
\* attempt, sets InitData to the built-in default dataset and finishes.
C1_ExhaustionSetsDefault ==
    [][\A r \in Runs :
          (pc[r] = "backoff" /\ attempt[r] >= maxRetries /\ pc'[r] # "backoff") =>
              (pc'[r] = "idle" /\ InitData' = Val(DefaultOf(impl)))]_vars

\* C2: merges for key "min3" are serialized: no two invocations are between
\* their cache read and their cache write at the same time.
C2_MergesSerialized ==
    \A r1, r2 \in Runs :
        (r1 # r2 /\ impl = "cached") =>
            ~(pc[r1] \in {"fetching", "saving"} /\ pc[r2] \in {"fetching", "saving"})

\* C3: with a non-empty cached list, a Nodata response makes LoginfetchAllData
\* return the cached observations of every cached user with check = true.
C3_NodataReturnsCached ==
    [][\A r \in Runs :
          (NodataStep(r) /\ Len(ex_data[r]) >= 1) =>
              (ret'.check = "true" /\ finalAllData' = MapAll(ex_data[r]))]_vars

C8_ParallelArraysAligned ==
    ret.run # 0 =>
        \A i \in 1..Len(finalAllData) :
            /\ finalAllData[i].hasUsemodel
            /\ Len(finalAllData[i].usemodel) = Len(finalAllData[i].time)
            /\ Len(finalAllData[i].total) = Len(finalAllData[i].time)

\* ---------------------------------------------- claims on the cache check
\* every entry carries a date, and some adjacent pair is not one day apart
HasDateGap(data) ==
    /\ \A i \in 1..Len(data) : data[i].valid
    /\ \E i \in 2..Len(data) : data[i].t - data[i - 1].t # DayLength

\* every entry carries a date, each one day after the one before it
ConsecutiveDays(data) ==
    /\ \A i \in 1..Len(data) : data[i].valid
    /\ \A i \in 2..Len(data) : data[i].t - data[i - 1].t = DayLength

\* the cache check read the record (loadUpdate resolved) in this step
CheckReadsRecord == c_pc = "loading" /\ c_pc' \notin {"loading", "rejected"}

\* C9: a cached record whose entries carry dates with a gap (D, D+1, D+3) is
\* judged invalid: the check ends with isCacheExisit false, without asking
\* versionCheck and without installing the cached data or cursor.
C9_GapIsStale ==
    [][(CheckReadsRecord /\ chart.exists /\ HasDateGap(chart.data)) =>
          /\ c_pc' = "done"
          /\ isCacheExisit' = FALSE
          /\ InitData' = InitData
          /\ lastTime' = lastTime]_vars

C9_Witness ==
    /\ chart = Record(Cursor("string", TRUE), <<DateOf(0), DateOf(2), DateOf(6)>>)
    /\ c_pc = "done"
    /\ isCacheExisit = FALSE
    /\ InitData = Null
    /\ f_pc = "clearing"

VersionAnswered(reply) ==
    /\ c_pc = "version"
    /\ c_pc' = "done"
    /\ isVersion'.asked
    /\ isVersion'.reply = reply

C12_NoUsableRecordIsInvalid ==
    [][(CheckReadsRecord /\ (~chart.exists \/ chart.time = Undefined)) =>
          /\ c_pc' = "done"
          /\ isCacheExisit' = FALSE
          /\ InitData' = InitData
          /\ lastTime' = lastTime]_vars

C12_Witness ==
    /\ chart = Record(Undefined, <<DateOf(0), DateOf(2), DateOf(4)>>)
    /\ c_pc = "done"
    /\ isCacheExisit = FALSE
    /\ f_pc = "clearing"
    /\ InitData = Null
    /\ ~isVersion.asked

\* the step in which the cache check finds the record stale: after reading
\* it, or after the version check called it outdated
StaleFound ==
    \/ /\ CheckReadsRecord
       /\ c_pc' = "done"
       /\ Unusable(chart) \/ ~isSequential(chart.data)
    \/ VersionAnswered("true")

\* C13: every time the cache check finds the record stale, on mount or on a
\* periodic re-check, the refetch (delete of the old record, then the full
\* fetch) is started or is already under way.
C13_StaleStartsRefetch ==
    [][StaleFound => f_pc' \in {"clearing", "fetching", "saving"}]_vars

\* the step in which the cache check judges the record rec valid: it passed
\* every test the build makes and the check reaches setInitData
ValidFound(rec) ==
    \/ /\ checkImpl = "periodic"
       /\ CheckReadsRecord
       /\ rec = chart
       /\ ~Unusable(chart) /\ isSequential(chart.data)
    \/ /\ c_pc = "version"
       /\ c_pc' = "done"
       /\ rec = cachedData
       /\ ~isVersion'.value

\* C14: when the cache check judges the cache valid, the cached data and
\* cursor become InitData and lastTime as they are, and the step deletes
\* nothing, writes nothing and starts no refetch: the record in the store,
\* the flag and the refetch effect stay as they were.
C14_ValidInstallsOnly ==
    [][\A rec \in {chart, cachedData} : ValidFound(rec) =>
          /\ InitData' = Val(rec.data)
          /\ lastTime' = rec.time
          /\ chart' = chart
          /\ isCacheExisit' = isCacheExisit
          /\ f_pc' = f_pc
          /\ insertdata' = insertdata]_vars

C14_Witness ==
    /\ checkImpl = "periodic"
    /\ c_pc = "done"
    /\ chart = Record(Cursor("number", TRUE), <<DateOf(1), DateOf(3), DateOf(5)>>)
    /\ InitData = Val(chart.data)
    /\ lastTime = chart.time
    /\ isCacheExisit = TRUE
    /\ f_pc = "idle"

\* ---------------------------------------------- claims on the loading state
\* C15: from mount, whatever the outcomes of the fetches, Home eventually
\* leaves the loading state with a non-empty dataset in InitData.
C15_EventuallyReady ==
    <>(loading = FALSE /\ ~InitData.isNull /\ Len(InitData.value) > 0)

\* ---------------------------------------------- claims on the order of steps
\* C16: the cache read precedes the fetch. In every call of the caching
\* LoginfetchAllData the request is issued only by the step in which the
\* read of that call returns, with the cursor and data just read; a call
\* whose read fails ends (as a failed attempt) without issuing a request.
C16_ReadBeforeFetch ==
    [][\A r \in Runs : impl = "cached" =>
          /\ (pc[r] # "fetching" /\ pc'[r] = "fetching") =>
                /\ pc[r] = "loading"
                /\ latest_time'[r] = store.time
                /\ ex_data'[r] = store.data
          /\ (pc[r] = "loading" /\ pc'[r] \notin {"loading", "fetching"}) =>
                /\ pc'[r] = "backoff"
                /\ ret'.via = "failed"]_vars

C16_Witness ==
    /\ impl = "cached"
    /\ pc[1] = "fetching"
    /\ Len(store.data) >= 1
    /\ ex_data[1] = store.data
    /\ latest_time[1] = store.time
    /\ ret.via = "merged"

\* C17: while the view is mounted, every time the pipeline is back at rest,
\* ready or not, the interval timer starts fetchData again: each return to
\* rest is followed by a new entry, not only the first one.
C17_TimerReenters ==
    (mounted /\ pc[1] = "idle") ~> (mounted /\ pc[1] = CallPc)

\* a tick has re-entered the pipeline from the ready state
C17_Witness ==
    /\ mounted
    /\ loading = FALSE
    /\ ~InitData.isNull
    /\ pc[1] = CallPc
    /\ ret.via \in {"merged", "array"}

\* ------------------------------------------- fetchAllData and useSocketData
MaxLines == 3
MaxChunk == 3

\* a record of a payload: its time and its userId (0: the field is absent);
\* NullItem is a null in the place of a record
Item(t, u) == [time |-> t, userId |-> u, isNull |-> FALSE]
NullItem == [time |-> 0, userId |-> 0, isNull |-> TRUE]

\* the JSON documents a line of the stream or a socket frame may carry
Docs == {"arr1", "arr2", "wallet1", "ping", "nullrec", "empty"}

\* the value JSON.parse gives for each document
DocValue(d) ==
    CASE d = "arr1" ->
           [isArray |-> TRUE, elems |-> <<Item(1, 2), Item(1, 1)>>,
            type |-> "", dataIsArray |-> FALSE, data |-> <<>>]
      [] d = "arr2" ->
           [isArray |-> TRUE, elems |-> <<Item(2, 1)>>,
            type |-> "", dataIsArray |-> FALSE, data |-> <<>>]
      [] d = "wallet1" ->
           [isArray |-> FALSE, elems |-> <<>>,
            type |-> "wallet", dataIsArray |-> TRUE, data |-> <<Item(1, 3)>>]
      [] d = "ping" ->
           [isArray |-> FALSE, elems |-> <<>>,
            type |-> "ping", dataIsArray |-> TRUE, data |-> <<Item(2, 2)>>]
      [] d = "nullrec" ->
           [isArray |-> TRUE, elems |-> <<NullItem>>,
            type |-> "", dataIsArray |-> FALSE, data |-> <<>>]
      [] OTHER ->
           [isArray |-> TRUE, elems |-> <<>>,
            type |-> "", dataIsArray |-> FALSE, data |-> <<>>]

\* the characters of the body: a document is written as two characters,
\* lines end with a newline, and Garbage is text that is not JSON
Char(d, k) == [doc |-> d, part |-> k]
NL == Char("\n", 0)
Garbage == Char("garbage", 1)
stringify(d) == <<Char(d, 1), Char(d, 2)>>

\* JSON.parse: the document if the text is exactly one document, else a throw
JSONparse(text) ==
    IF \E d \in Docs : text = stringify(d)
    THEN [ok |-> TRUE, value |-> DocValue(CHOOSE d \in Docs : text = stringify(d))]
    ELSE [ok |-> FALSE, value |-> DocValue("empty")]

\* String.prototype.split("\n"): always at least one piece
RECURSIVE split(_)
split(text) ==
    IF \A i \in 1..Len(text) : text[i] # NL
    THEN <<text>>
    ELSE LET i == CHOOSE k \in 1..Len(text) :
                      text[k] = NL /\ \A j \in 1..(k - 1) : text[j] # NL
         IN  <<SubSeq(text, 1, i - 1)>> \o split(SubSeq(text, i + 1, Len(text)))

\* Http_Get.jsx lines 34-41: which parsed values carry a payload
PayloadOf_AnyEnvelope(v) ==
    IF v.isArray THEN [has |-> TRUE, payload |-> v.elems]
    ELSE IF v.dataIsArray THEN [has |-> TRUE, payload |-> v.data]
    ELSE [has |-> FALSE, payload |-> <<>>]

PayloadOf(v) ==
    IF v.isArray THEN [has |-> TRUE, payload |-> v.elems]
    ELSE IF v.type = "wallet" /\ v.dataIsArray THEN [has |-> TRUE, payload |-> v.data]
    ELSE [has |-> FALSE, payload |-> <<>>]

\* payload[0]?.time ?? "__unknown__" (0 stands for "__unknown__")
timeKey(payload) == payload[1].time

\* .map(item => ({ ...item })): a null becomes an object without fields
copyOf(item) == IF item.isNull THEN Item(0, 0) ELSE item

\* .sort((a, b) => (a.userId ?? 0) - (b.userId ?? 0)), a stable sort
RECURSIVE InsertByUserId(_, _)
InsertByUserId(sorted, item) ==
    IF sorted = <<>> THEN <<item>>
    ELSE IF sorted[Len(sorted)].userId <= item.userId THEN Append(sorted, item)
    ELSE Append(InsertByUserId(SubSeq(sorted, 1, Len(sorted) - 1), item),
                sorted[Len(sorted)])

RECURSIVE normalizedGroup(_)
normalizedGroup(payload) ==
    IF payload = <<>> THEN <<>>
    ELSE InsertByUserId(normalizedGroup(SubSeq(payload, 1, Len(payload) - 1)),
                        copyOf(payload[Len(payload)]))

\* Map.prototype.set: a known key keeps its place, a new key goes last
MapSet(map, key, group) ==
    IF \E i \in 1..Len(map) : map[i].key = key
    THEN [i \in 1..Len(map) |->
             IF map[i].key = key THEN [key |-> key, group |-> group] ELSE map[i]]
    ELSE Append(map, [key |-> key, group |-> group])

\* the state of one pass: walletEntries, groupedByTime, logged parse errors
NoLines == [walletEntries |-> <<>>, groupedByTime |-> <<>>, errors |-> 0]

\* the body of the for loop, lines 30-61, for one line
ProcessLine(st, line) ==
    IF line = <<>> THEN st
    ELSE LET parsed == JSONparse(line) IN
         IF ~parsed.ok THEN [st EXCEPT !.errors = @ + 1]
         ELSE LET p == PayloadOf(parsed.value) IN
              IF ~p.has \/ Len(p.payload) = 0 THEN st
              ELSE [walletEntries |-> st.walletEntries \o p.payload,
                    groupedByTime |-> MapSet(st.groupedByTime, timeKey(p.payload),
                                             normalizedGroup(p.payload)),
                    errors |-> st.errors]

\* the for loop, lines 29-62
RECURSIVE ProcessLines_AbortOnError(_, _)
ProcessLines_AbortOnError(st, lines) ==
    IF lines = <<>> THEN st
    ELSE IF Head(lines) # <<>> /\ ~JSONparse(Head(lines)).ok
    THEN [st EXCEPT !.errors = @ + 1]
    ELSE ProcessLines_AbortOnError(ProcessLine(st, Head(lines)), Tail(lines))

RECURSIVE ProcessLines(_, _)
ProcessLines(st, lines) ==
    IF lines = <<>> THEN st
    ELSE ProcessLines(ProcessLine(st, Head(lines)), Tail(lines))

\* line 27: accumulated = lines.pop() ?? ""
Carry_Dropped(lines) == <<>>

Carry(lines) == lines[Len(lines)]

\* lines 25-62 for one chunk: what is processed and what is kept
ReadChunk(st, acc, chunk) ==
    LET lines == split(acc \o chunk)
    IN  [st |-> ProcessLines(st, SubSeq(lines, 1, Len(lines) - 1)),
         accumulated |-> Carry(lines)]

\* lines 65-67: groupedWallets and lastTime
groupedWallets(map) ==
    LET groups == [i \in 1..Len(map) |-> map[i].group]
        NonEmpty(g) == Len(g) > 0
    IN  SelectSeq(groups, NonEmpty)

lastTimeOf(entries) ==
    IF Len(entries) > 0 /\ entries[Len(entries)].time # 0
    THEN TimeVal(entries[Len(entries)].time)
    ELSE NoTime

\* lines 70-73: the outer catch
CatchReturn == [via |-> "catch", allData |-> <<>>, lastTime |-> NoTime]

\* lines 65-69; reading .time of a null last entry throws into the catch
ReturnOf(st) ==
    IF Len(st.walletEntries) > 0 /\ st.walletEntries[Len(st.walletEntries)].isNull
    THEN CatchReturn
    ELSE [via |-> "stream", allData |-> groupedWallets(st.groupedByTime),
          lastTime |-> lastTimeOf(st.walletEntries)]


\* the texts a line may hold, and the bodies a server may send: lines each
\* ended by a newline, then possibly a last one that is not
LineTexts == {stringify(d) : d \in Docs} \cup {<<Garbage>>, <<>>}

RECURSIVE JoinLines(_)
JoinLines(lines) ==
    IF lines = <<>> THEN <<>>
    ELSE Head(lines) \o <<NL>> \o JoinLines(Tail(lines))

Bodies ==
    {JoinLines(ls) \o last : ls \in SeqsUpTo(LineTexts, MaxLines),
                            last \in {<<>>, stringify("arr2")}}

\* lines 3-8: the response is usable; the reader is taken
StreamRespOk ==
    /\ n_pc = "fetching"
    /\ n_pc' = "reading"
    /\ UNCHANGED <<stream, pos, accumulated, walletEntries, groupedByTime,
                   n_errors, n_ret, lastMessage, datalist, s_threw,
                   mergeVars, pipeVars, cacheVars, viewVars>>

\* fetch rejected, or !res.ok || !res.body: the throw of line 5, caught at 70
StreamRespFails ==
    /\ n_pc = "fetching"
    /\ n_pc' = "rejected"
    /\ n_ret' = CatchReturn
    /\ UNCHANGED <<stream, pos, accumulated, walletEntries, groupedByTime,
                   n_errors, lastMessage, datalist, s_threw,
                   mergeVars, pipeVars, cacheVars, viewVars>>

\* lines 17-62: reader.read() gave the next n characters
Read(n) ==
    /\ n_pc = "reading"
    /\ pos + n <= Len(stream)
    /\ LET r == ReadChunk([walletEntries |-> walletEntries,
                           groupedByTime |-> groupedByTime,
                           errors |-> n_errors],
                          accumulated, SubSeq(stream, pos + 1, pos + n))
       IN  /\ walletEntries' = r.st.walletEntries
           /\ groupedByTime' = r.st.groupedByTime
           /\ n_errors' = r.st.errors
           /\ accumulated' = r.accumulated
    /\ pos' = pos + n
    /\ UNCHANGED <<n_pc, stream, n_ret, lastMessage, datalist, s_threw,
                   mergeVars, pipeVars, cacheVars, viewVars>>

\* lines 17-22 and 65-69: reader.read() gave done; the loop ends, the
\* function returns
ReadDone ==
    /\ n_pc = "reading"
    /\ pos = Len(stream)
    /\ n_pc' = "returned"
    /\ n_ret' = ReturnOf([walletEntries |-> walletEntries,
                          groupedByTime |-> groupedByTime,
                          errors |-> n_errors])
    /\ UNCHANGED <<stream, pos, accumulated, walletEntries, groupedByTime,
                   n_errors, lastMessage, datalist, s_threw,
                   mergeVars, pipeVars, cacheVars, viewVars>>

\* reader.read() rejected: the outer catch, lines 70-73
ReadFails ==
    /\ n_pc = "reading"
    /\ n_pc' = "rejected"
    /\ n_ret' = CatchReturn
    /\ UNCHANGED <<stream, pos, accumulated, walletEntries, groupedByTime,
                   n_errors, lastMessage, datalist, s_threw,
                   mergeVars, pipeVars, cacheVars, viewVars>>

\* Socket.jsx lines 22-30: which parsed values carry a payload
SocketPayloadOf(v) ==
    IF v.isArray THEN [has |-> TRUE, payload |-> v.elems]
    ELSE IF v.type = "wallet" /\ v.dataIsArray THEN [has |-> TRUE, payload |-> v.data]
    ELSE [has |-> FALSE, payload |-> <<>>]

\* Socket.jsx lines 32-48: the records are not arrays, so payload is taken
\* as it is, and each record is copied field by field
mapped(payload) == [i \in 1..Len(payload) |-> Item(payload[i].time, payload[i].userId)]

\* item.userId of a null throws (the default {} is for undefined only)
mapThrows(payload) == \E i \in 1..Len(payload) : payload[i].isNull

\* Socket.jsx lines 17-55: the effect on [lastMessage]; the socket is open
\* only with a truthy lastTime (lines 7-10)
SocketFrame(text) ==
    /\ n_pc = "returned"
    /\ ~n_ret.lastTime.isNull
    /\ lastMessage' = text
    /\ IF text = <<>>
       THEN /\ s_threw' = FALSE
            /\ UNCHANGED datalist
       ELSE LET parsed == JSONparse(text) IN
            IF ~parsed.ok
            THEN /\ s_threw' = TRUE
                 /\ UNCHANGED datalist
            ELSE LET p == SocketPayloadOf(parsed.value) IN
                 IF p.has /\ mapThrows(p.payload)
                 THEN /\ s_threw' = TRUE
                      /\ UNCHANGED datalist
                 ELSE /\ s_threw' = FALSE
                      /\ IF p.has THEN datalist' = mapped(p.payload)
                                  ELSE UNCHANGED datalist
    /\ UNCHANGED <<n_pc, stream, pos, accumulated, walletEntries, groupedByTime,
                   n_errors, n_ret, mergeVars, pipeVars, cacheVars, viewVars>>

StreamInit ==
    /\ ViewIdle
    /\ MergeIdle
    /\ PipeIdle
    /\ CacheIdle
    /\ n_pc = "fetching"
    /\ stream \in Bodies
    /\ pos = 0
    /\ accumulated = <<>>
    /\ walletEntries = <<>>
    /\ groupedByTime = <<>>
    /\ n_errors = 0
    /\ n_ret = [via |-> "none", allData |-> <<>>, lastTime |-> NoTime]
    /\ lastMessage = <<>>
    /\ datalist = <<>>
    /\ s_threw = FALSE

StreamNext ==
    \/ StreamRespOk
    \/ StreamRespFails
    \/ \E n \in 1..MaxChunk : Read(n)
    \/ ReadDone
    \/ ReadFails
    \/ \E text \in LineTexts : SocketFrame(text)

SpecStream == StreamInit /\ [][StreamNext]_vars

\* ------------------------------------------------ claims on the normalizer
\* the lines of a body that end with a newline: the ones the loop is given
CompleteLines(text) == LET lines == split(text) IN SubSeq(lines, 1, Len(lines) - 1)

\* an envelope whose type is not "wallet", such as {type: "ping", ...}
IsOtherEnvelope(text) ==
    /\ JSONparse(text).ok
    /\ ~JSONparse(text).value.isArray
    /\ JSONparse(text).value.type # "wallet"

NotOtherEnvelope(text) == ~IsOtherEnvelope(text)

\* a non-empty line JSON.parse throws on
IsMalformed(text) == text # <<>> /\ ~JSONparse(text).ok

NotMalformed(text) == ~IsMalformed(text)

CarriesPayload(text) ==
    /\ JSONparse(text).ok
    /\ PayloadOf(JSONparse(text).value).has
    /\ Len(PayloadOf(JSONparse(text).value).payload) > 0

\* the read loop has ended and fetchAllData has returned
ReturnedStream == n_pc = "returned"

\* C18: an envelope whose type is not "wallet" yields no records and no
\* throw. In fetchAllData the result, the records and the logged errors are
\* the ones of the same body without those lines; in useSocketData such a
\* frame leaves datalist as it was and does not reach the catch.
C18_OtherEnvelopesDiscarded ==
    /\ [](ReturnedStream =>
            LET rest == ProcessLines(NoLines,
                            SelectSeq(CompleteLines(stream), NotOtherEnvelope))
            IN  /\ n_ret = ReturnOf(rest)
                /\ walletEntries = rest.walletEntries
                /\ n_errors = rest.errors)
    /\ [][\A text \in LineTexts :
            (SocketFrame(text) /\ IsOtherEnvelope(text)) =>
                (datalist' = datalist /\ s_threw' = FALSE)]_vars

\* a body with a ping line among record lines was read to the end, and a
\* ping frame arrived while datalist held the records of an earlier frame
C18_Witness ==
    /\ ReturnedStream
    /\ \E i \in 1..Len(CompleteLines(stream)) :
           CompleteLines(stream)[i] = stringify("ping")
    /\ Len(n_ret.allData) >= 1
    /\ lastMessage = stringify("ping")
    /\ Len(datalist) >= 1

\* C19: a line that fails to parse is skipped on its own. The result and
\* the records are the ones of the same body without the malformed lines,
\* and each of those lines is logged once.
C19_MalformedLineSkipped ==
    ReturnedStream =>
        LET rest == ProcessLines(NoLines,
                        SelectSeq(CompleteLines(stream), NotMalformed))
            bad == SelectSeq(CompleteLines(stream), IsMalformed)
        IN  /\ n_ret = ReturnOf(rest)
            /\ walletEntries = rest.walletEntries
            /\ groupedByTime = rest.groupedByTime
            /\ n_errors = Len(bad)

\* a malformed line stood between two lines with records, and both are in
\* the result
C19_Witness ==
    /\ ReturnedStream
    /\ Len(CompleteLines(stream)) = 3
    /\ CarriesPayload(CompleteLines(stream)[1])
    /\ IsMalformed(CompleteLines(stream)[2])
    /\ CarriesPayload(CompleteLines(stream)[3])
    /\ n_errors = 1
    /\ n_ret.via = "stream"
    /\ Len(n_ret.allData) = 2

\* C20: chunk boundaries do not matter. However the body was cut into
\* reads, what is returned, the records taken, the errors logged and the
\* text left over are the ones of a single read of the whole body.
C20_ChunkIndependent ==
    ReturnedStream =>
        LET one == ReadChunk(NoLines, <<>>, stream)
        IN  /\ n_ret = ReturnOf(one.st)
            /\ walletEntries = one.st.walletEntries
            /\ groupedByTime = one.st.groupedByTime
            /\ n_errors = one.st.errors
            /\ accumulated = one.accumulated

\* a read ended in the middle of a line after earlier lines were taken: the
\* first half is kept and the second half is what comes next
C20_Witness ==
    /\ n_pc = "reading"
    /\ Len(walletEntries) >= 1
    /\ accumulated = <<Char("arr2", 1)>>
    /\ pos < Len(stream)
    /\ stream[pos + 1] = Char("arr2", 2)
    /\ pos + 2 <= Len(stream)
    /\ stream[pos + 2] = NL

\* ---------------------------------------------------- the record mappers
\* the values a field of a received record may have: absent, 0 or a number
\* (15 stands for 1.5)
FieldVals == {NoField, Field(0), Field(2), Field(15)}

Items == [btc : FieldVals, bit : {NoField, Field(7)},
          doge : FieldVals, dog : {NoField, Field(3)}]

\* a || b of JavaScript: a unless it is undefined or 0
Or(a, b) == IF a.has /\ a.v # 0 THEN a ELSE b

\* Socket.jsx lines 33-48: bit: item.btc || item.bit, dog: item.dog
SocketMap(item) == [bit |-> Or(item.btc, item.bit), dog |-> item.dog]

\* LoginfetchAllData.jsx lines 83-95: bit: dayArray.bit, dog: dayArray.doge
LoginMap(dayArray) == [bit |-> dayArray.bit, dog |-> dayArray.doge]

MapField ==
    /\ fld_pc = "call"
    /\ fld_pc' = "mapped"
    /\ fld_out' = IF fld_site = "socket" THEN SocketMap(fld_item)
                                         ELSE LoginMap(fld_item)
    /\ UNCHANGED <<fld_site, fld_item, coreVars, projVars, dbVars, dashVars>>

FieldInit ==
    /\ MergeIdle
    /\ PipeIdle
    /\ CacheIdle
    /\ StreamIdle
    /\ ProjIdle
    /\ DbIdle
    /\ DashIdle
    /\ fld_pc = "call"
    /\ fld_site \in {"socket", "login"}
    /\ fld_item \in Items
    /\ fld_out = [bit |-> NoField, dog |-> NoField]

FieldNext == MapField

SpecField == FieldInit /\ [][FieldNext]_vars

\* C21: the field rename. In the record a mapper builds, bit has the value
\* of btc whenever the received record has a btc, dog has the value of its
\* doge, and there is no btc and no doge key.
C21_FieldRename ==
    fld_pc = "mapped" =>
        /\ fld_item.btc.has => fld_out.bit = fld_item.btc
        /\ fld_out.dog = fld_item.doge
        /\ DOMAIN fld_out = {"bit", "dog"}

\* ------------------------------------------------- the projections of Home
\* pages/home.jsx lines 274-311: the three projections of one UserSeries.
\* total stands for the fields copied as they are; an absent usemodel is
\* copied as absent. threw tells whether the call ended in a throw.
data_split_NeedsUsemodel(data) ==
    [threw |-> ~data.hasUsemodel,
     sender_chart |-> [userId |-> data.userId, total |-> data.total,
                       time |-> data.time],
     sender_analyze |-> [userId |-> data.userId, hasUsemodel |-> data.hasUsemodel,
                         usemodel |-> data.usemodel, time |-> data.time],
     sender_wallet |-> [userId |-> data.userId, hasUsemodel |-> data.hasUsemodel,
                        usemodel |-> data.usemodel, total |-> data.total,
                        time |-> data.time]]

data_split(data) ==
    [threw |-> FALSE,
     sender_chart |-> [userId |-> data.userId, total |-> data.total,
                       time |-> data.time],
     sender_analyze |-> [userId |-> data.userId, hasUsemodel |-> data.hasUsemodel,
                         usemodel |-> data.usemodel, time |-> data.time],
     sender_wallet |-> [userId |-> data.userId, hasUsemodel |-> data.hasUsemodel,
                        usemodel |-> data.usemodel, total |-> data.total,
                        time |-> data.time]]

\* line 387: MappingData?.map(item => data_split(item))
mapping_result(list) == [i \in 1..Len(list) |-> data_split(list[i])]

pipeButLoading == <<impl, mounted, store, pc, attempt, latest_time, ex_data,
                    resp_time, ret, finalAllData, InitData>>

\* lines 366-375: the effect on [InitData]
EffectInitData ==
    /\ mounted
    /\ InitData # depInit
    /\ depInit' = InitData
    /\ LiveData' = IF InitData.isNull THEN LiveData ELSE InitData
    /\ UNCHANGED <<MappingData, sender_chart, sender_analyze, sender_wallet,
                   depLive, depMap, pipeVars, mergeVars, cacheVars, streamVars,
                   fieldVars, dbVars, dashVars>>

\* lines 377-381: the effect on [LiveData]
EffectLiveData ==
    /\ mounted
    /\ LiveData # depLive
    /\ depLive' = LiveData
    /\ MappingData' = IF LiveData.isNull THEN MappingData ELSE LiveData.value
    /\ UNCHANGED <<LiveData, sender_chart, sender_analyze, sender_wallet,
                   depInit, depMap, pipeVars, mergeVars, cacheVars, streamVars,
                   fieldVars, dbVars, dashVars>>

\* lines 384-396: the effect on [MappingData]; a throw of data_split ends it
EffectMappingData ==
    /\ mounted
    /\ MappingData # depMap
    /\ depMap' = MappingData
    /\ LET result == mapping_result(MappingData)
       IN  IF (\A i \in 1..Len(result) : ~result[i].threw) /\ Len(result) > 0
           THEN /\ sender_chart' = [i \in 1..Len(result) |-> result[i].sender_chart]
                /\ sender_analyze' = [i \in 1..Len(result) |-> result[i].sender_analyze]
                /\ sender_wallet' = [i \in 1..Len(result) |-> result[i].sender_wallet]
                /\ loading' = FALSE
           ELSE UNCHANGED <<sender_chart, sender_analyze, sender_wallet, loading>>
    /\ UNCHANGED <<LiveData, MappingData, depInit, depLive, pipeButLoading,
                   mergeVars, cacheVars, streamVars, fieldVars, dbVars, dashVars>>

ViewNext ==
    \/ LiveNext
    \/ EffectInitData
    \/ EffectLiveData
    \/ EffectMappingData

SpecView == Init /\ [][ViewNext]_vars

\* every effect has run for the current value of its dependency
Settled ==
    /\ depInit = InitData
    /\ depLive = LiveData
    /\ depMap = MappingData

\* C22: data_split is total. For every UserSeries of a non-empty
\* MappingData, one without usemodel included, the effect gets the three
\* projections, each with the userId of the series and the values of the
\* fields of its widget.
C22_DataSplitTotal ==
    (depMap = MappingData /\ Len(MappingData) > 0) =>
        /\ Len(sender_chart) = Len(MappingData)
        /\ Len(sender_analyze) = Len(MappingData)
        /\ Len(sender_wallet) = Len(MappingData)
        /\ \A i \in 1..Len(MappingData) :
              /\ sender_chart[i].userId = MappingData[i].userId
              /\ sender_chart[i].total = MappingData[i].total
              /\ sender_chart[i].time = MappingData[i].time
              /\ sender_analyze[i].userId = MappingData[i].userId
              /\ sender_analyze[i].hasUsemodel = MappingData[i].hasUsemodel
              /\ sender_analyze[i].usemodel = MappingData[i].usemodel
              /\ sender_analyze[i].time = MappingData[i].time
              /\ sender_wallet[i].userId = MappingData[i].userId
              /\ sender_wallet[i].hasUsemodel = MappingData[i].hasUsemodel
              /\ sender_wallet[i].usemodel = MappingData[i].usemodel
              /\ sender_wallet[i].total = MappingData[i].total
              /\ sender_wallet[i].time = MappingData[i].time

\* the projections of a series that has no usemodel were taken
C22_Witness ==
    /\ depMap = MappingData
    /\ Len(MappingData) > 0
    /\ ~MappingData[1].hasUsemodel
    /\ Len(sender_analyze) > 0
    /\ ~sender_analyze[1].hasUsemodel
    /\ sender_wallet[1].userId = "default_user_01"

\* C27: the projections follow MappingData. Once every effect has run for
\* the current value of its dependency, sender_chart, sender_analyze and
\* sender_wallet are the projections of the current MappingData, also when
\* MappingData has become empty.
C27_ProjectionsFollow ==
    Settled =>
        LET result == mapping_result(MappingData)
        IN  /\ sender_chart = [i \in 1..Len(result) |-> result[i].sender_chart]
            /\ sender_analyze = [i \in 1..Len(result) |-> result[i].sender_analyze]
            /\ sender_wallet = [i \in 1..Len(result) |-> result[i].sender_wallet]

\* ----------------------------------------------------------------- getDB
\* what a store can hold under the key: nothing, the record the upgrade of
\* part_001 adds ({time: undefined, data: undefined}), or saved data
Saved == {"d1", "d2"}

\* everything that is not the database part
notDb == <<coreVars, fieldVars, projVars, dashVars>>

\* saveUpdate, loadUpdate or clearStore is called; its first step is getDB,
\* whose first step is openDB (part_001 lines 5, 46, 58, 67)
DbCall(op, d) ==
    /\ db_pc \in {"idle", "done"}
    /\ db_pc' = "open1"
    /\ db_op' = op
    /\ db_arg' = IF op = "saveUpdate" THEN d ELSE "none"
    /\ db_trace' = <<>>
    /\ db_getDB' = "pending"
    /\ db_result' = "none"
    /\ UNCHANGED <<db_name, db_exists, db_record, notDb>>

\* what upgrade leaves in a store it creates: part_001 line 13 adds a record
\* under key 1, part_011 lines 8-13 add nothing
UpgradeRecord(name) == IF name = "DB" THEN "initial" ELSE "absent"

\* lines 5-18: the first openDB resolved; upgrade ran if there was no database
Open1Ok ==
    /\ db_pc = "open1"
    /\ db_pc' = "tx"
    /\ db_trace' = Append(db_trace, "open ok")
    /\ db_getDB' = "returned"
    /\ db_exists' = TRUE
    /\ db_record' = IF db_exists THEN db_record ELSE UpgradeRecord(db_name)
    /\ UNCHANGED <<db_name, db_op, db_arg, db_result, notDb>>

\* lines 19-22: the first openDB rejected; deleteDB is called
Open1Fails ==
    /\ db_pc = "open1"
    /\ db_pc' = "deleting"
    /\ db_trace' = Append(db_trace, "open failed")
    /\ UNCHANGED <<db_name, db_op, db_arg, db_exists, db_record, db_getDB,
                   db_result, notDb>>

\* what a caller gets when getDB or the transaction throws: saveUpdate and
\* clearStore catch and return false, loadUpdate has no catch
Thrown(op) == IF op = "loadUpdate" THEN "rejected" ELSE "false"

\* line 22 resolved, line 24: the database is gone; openDB is called again
DeleteOk ==
    /\ db_pc = "deleting"
    /\ db_pc' = "open2"
    /\ db_trace' = Append(db_trace, "delete ok")
    /\ db_exists' = FALSE
    /\ db_record' = "absent"
    /\ UNCHANGED <<db_name, db_op, db_arg, db_getDB, db_result, notDb>>

\* line 22 rejected: nothing catches it inside getDB
DeleteFails ==
    /\ db_pc = "deleting"
    /\ db_pc' = "done"
    /\ db_trace' = Append(db_trace, "delete failed")
    /\ db_getDB' = "thrown"
    /\ db_result' = Thrown(db_op)
    /\ UNCHANGED <<db_name, db_op, db_arg, db_exists, db_record, notDb>>

\* lines 24-40: the second openDB resolved; its upgrade adds no record
Open2Ok ==
    /\ db_pc = "open2"
    /\ db_pc' = "tx"
    /\ db_trace' = Append(db_trace, "open ok")
    /\ db_getDB' = "returned"
    /\ db_exists' = TRUE
    /\ db_record' = "absent"
    /\ UNCHANGED <<db_name, db_op, db_arg, db_result, notDb>>

Open2Fails_Retry ==
    /\ db_pc = "open2"
    /\ Len(SelectSeq(db_trace, LAMBDA e : e \in {"open ok", "open failed"})) < 3
    /\ db_pc' = "deleting"
    /\ db_trace' = Append(db_trace, "open failed")
    /\ UNCHANGED <<db_name, db_op, db_arg, db_exists, db_record, db_getDB,
                   db_result, notDb>>

\* line 24 rejected: nothing catches it inside getDB
Open2Fails ==
    /\ db_pc = "open2"
    /\ db_pc' = "done"
    /\ db_trace' = Append(db_trace, "open failed")
    /\ db_getDB' = "thrown"
    /\ db_result' = Thrown(db_op)
    /\ UNCHANGED <<db_name, db_op, db_arg, db_exists, db_record, notDb>>

\* lines 47-50, 59-62, 68-71: the transaction of the operation completed
TxDone ==
    /\ db_pc = "tx"
    /\ db_pc' = "done"
    /\ db_record' = CASE db_op = "saveUpdate" -> db_arg
                      [] db_op = "clearStore" -> "absent"
                      [] OTHER -> db_record
    /\ db_result' = IF db_op = "loadUpdate" THEN db_record ELSE "true"
    /\ UNCHANGED <<db_name, db_op, db_arg, db_exists, db_trace, db_getDB, notDb>>

\* the transaction failed and wrote nothing
TxFails ==
    /\ db_pc = "tx"
    /\ db_pc' = "done"
    /\ db_result' = Thrown(db_op)
    /\ UNCHANGED <<db_name, db_op, db_arg, db_exists, db_record, db_trace,
                   db_getDB, notDb>>

DbInit ==
    /\ MergeIdle
    /\ PipeIdle
    /\ CacheIdle
    /\ StreamIdle
    /\ FieldIdle
    /\ ProjIdle
    /\ DashIdle
    /\ db_pc = "idle"
    /\ db_name \in {"DB", "VT_DB"}
    /\ db_op = "none"
    /\ db_arg = "none"
    /\ db_exists = FALSE
    /\ db_record = "absent"
    /\ db_trace = <<>>
    /\ db_getDB = "pending"
    /\ db_result = "none"

DbNext ==
    \/ \E op \in {"saveUpdate", "loadUpdate", "clearStore"}, d \in Saved : DbCall(op, d)
    \/ Open1Ok
    \/ Open1Fails
    \/ DeleteOk
    \/ DeleteFails
    \/ Open2Ok
    \/ Open2Fails
    \/ TxDone
    \/ TxFails

SpecDb == DbInit /\ [][DbNext]_vars

\* getDB has ended after its first openDB failed
RecoveryEnded ==
    /\ db_getDB # "pending"
    /\ Len(db_trace) >= 1
    /\ db_trace[1] = "open failed"

\* C23 as stated: after a failed open the database is deleted and opened
\* again exactly once, and a failure of that second open goes to the caller.
C23_DeleteAndReopenOnce ==
    RecoveryEnded =>
        \/ db_trace = <<"open failed", "delete ok", "open ok">> /\ db_getDB = "returned"
        \/ db_trace = <<"open failed", "delete ok", "open failed">> /\ db_getDB = "thrown"

\* C23, with the failed delete: after a failed open deleteDB is called once;
\* if it succeeds the database is opened again exactly once and a failure
\* of that open goes to the caller; if it fails, its error goes to the
\* caller and there is no second open. No step is tried again.
C23_RecoveryOnce ==
    RecoveryEnded =>
        \/ db_trace = <<"open failed", "delete ok", "open ok">> /\ db_getDB = "returned"
        \/ db_trace = <<"open failed", "delete ok", "open failed">> /\ db_getDB = "thrown"
        \/ db_trace = <<"open failed", "delete failed">> /\ db_getDB = "thrown"

\* both opens failed under loadUpdate, which hands the error to its caller
C23_Witness ==
    /\ db_trace = <<"open failed", "delete ok", "open failed">>
    /\ db_getDB = "thrown"
    /\ db_op = "loadUpdate"
    /\ db_result = "rejected"
    /\ db_pc = "done"

\* ------------------------------------- overlapping runs against one server
\* The server stamps each answer with its clock when it handles the request;
\* the answers of requests that are in flight together may arrive in either
\* order. The clock never goes back, and what it sends after cursor c is
\* newer than c.
MaxCursor == 2

\* the most recent time the server is known to have put on an answer: the
\* answers under way or being handled, and the cursor that was persisted
ServerClock ==
    LET times == {resp_time[q] : q \in Runs} \cup {store.time}
    IN  CHOOSE t \in times : \A u \in times : u <= t

Served_AnyTime(r, k) ==
    /\ impl = "cached"
    /\ pc[r] = "fetching"
    /\ resp_time' = [resp_time EXCEPT ![r] = k]
    /\ pc' = [pc EXCEPT ![r] = "served"]
    /\ UNCHANGED <<impl, mounted, store, attempt, latest_time, ex_data, ret,
                   finalAllData, loading, InitData, mergeVars, cacheVars,
                   streamVars, viewVars>>

\* the server handles the request of run r at clock value k
Served(r, k) ==
    /\ impl = "cached"
    /\ pc[r] = "fetching"
    /\ k > latest_time[r]
    /\ k >= ServerClock
    /\ resp_time' = [resp_time EXCEPT ![r] = k]
    /\ pc' = [pc EXCEPT ![r] = "served"]
    /\ UNCHANGED <<impl, mounted, store, attempt, latest_time, ex_data, ret,
                   finalAllData, loading, InitData, mergeVars, cacheVars,
                   streamVars, viewVars>>

\* lines 72-79: the body {time, data: payload} stamped by the server has
\* arrived: data_sum, then saveUpdate is awaited
Delivered(r, payload) ==
    /\ pc[r] = "served"
    /\ Size(ex_data[r]) + Size(payload) <= MaxStoreObs
    /\ IF ThrowIndex(payload) > 0
       THEN Returned(r, "failed", defaultAllData, "false")
       ELSE /\ ex_data' = [ex_data EXCEPT ![r] = data_sum(ex_data[r], payload)]
            /\ pc' = [pc EXCEPT ![r] = "saving"]
            /\ UNCHANGED <<attempt, latest_time, ret, finalAllData, loading,
                           InitData>>
    /\ UNCHANGED <<impl, mounted, store, resp_time, mergeVars, cacheVars,
                   streamVars, viewVars>>

ServerInit ==
    /\ Init
    /\ impl = "cached"

ServerNext ==
    \/ Mount
    \/ \E r \in Runs : Tick(r)
    \/ \E r \in Runs : LoadDone(r)
    \/ \E r \in Runs : LoadFails(r)
    \/ \E r \in Runs : FetchFails(r)
    \/ \E r \in Runs : RespNodata(r)
    \/ \E r \in Runs, k \in 1..MaxCursor : Served(r, k)
    \/ \E r \in Runs : \E payload \in PayloadsAt(resp_time[r]) : Delivered(r, payload)
    \/ \E r \in Runs, ok \in BOOLEAN : SaveDone(r, ok)
    \/ \E r \in Runs : BackoffDone(r)

SpecServer == ServerInit /\ [][ServerNext]_vars

\* the times of a block of observations, in order
NonDecreasing(times) == \A i \in 2..Len(times) : times[i - 1] <= times[i]

TimesOf(block) == [i \in 1..Len(block) |-> block[i].time]

C28_CursorNeverBack ==
    [][store'.time >= store.time]_vars

C25_TeardownCancelsNothing ==
    /\ [][(mounted /\ ~mounted') =>
            UNCHANGED <<pc, attempt, latest_time, ex_data, resp_time, store,
                        ret, finalAllData, InitData, loading>>]_vars
    /\ \A p \in {"loading", "fetching", "saving", "backoff"} :
          (~mounted /\ pc[1] = p) ~> (~mounted /\ pc[1] = "idle" /\ ~InitData.isNull)

\* the view is unmounted while a run, in a retry, is about to write the record
C25_Witness ==
    /\ ~mounted
    /\ pc[1] = "saving"
    /\ attempt[1] >= 1

\* C29: when the stream has ended, every non-empty line received has been
\* parsed and is in the result, a last line without a newline after it
\* included: what is returned and the records taken are the ones of all the
\* pieces of the body, the text after the last newline being one of them.
C29_AllLinesParsed ==
    ReturnedStream =>
        LET all == ProcessLines(NoLines, split(stream))
        IN  /\ n_ret = ReturnOf(all)
            /\ walletEntries = all.walletEntries

\* ------------------------------------------------ DashBoard
\* pages/dashboard.jsx line 17
menu == <<"Account", "GPT", "GEMMA", "DEEPSEEK", "QWEN">>

\* String.prototype.toLowerCase on the items of menu
toLowerCase(item) ==
    CASE item = "Account" -> "account"
      [] item = "GPT" -> "gpt"
      [] item = "GEMMA" -> "gemma"
      [] item = "DEEPSEEK" -> "deepseek"
      [] item = "QWEN" -> "qwen"

\* lines 30-32 and 47-49: menu.find(item => item.toLowerCase() === value)
\* || "Account", value being searchParams.get("select"); "absent" stands
\* for a search without the parameter and "bogus" for a value of no item
urlSelect(value) ==
    IF \E i \in 1..Len(menu) : toLowerCase(menu[i]) = value
    THEN menu[CHOOSE i \in 1..Len(menu) :
                /\ toLowerCase(menu[i]) = value
                /\ \A j \in 1..(i - 1) : toLowerCase(menu[j]) # value]
    ELSE "Account"

\* the entries the session history keeps, and the clicks and traversals
\* followed
MaxHist == 3
MaxEvents == 4

\* history.pushState: the entries after the current one are dropped, the new
\* one becomes the last and the current one; the oldest goes when the
\* history is full
pushState(hist, idx, url) ==
    LET h == Append(SubSeq(hist, 1, idx), url)
    IN  IF Len(h) > MaxHist THEN Tail(h) ELSE h

\* DashBoard as one value
Dash ==
    [select |-> d_select, search |-> d_search,
     pendSelect |-> d_pendSelect, pendSearch |-> d_pendSearch,
     fx |-> d_fx, history |-> d_history, index |-> d_index]

\* lines 36-40 and 42-44: the effect on [select] calls goSelect(select) of
\* its render: search.set("select", select.toLowerCase()) and navigate with
\* replace false, which pushes the entry and queues the location update
goSelect(st) ==
    LET url == toLowerCase(st.fx.select)
        h == pushState(st.history, st.index, url)
    IN  [st EXCEPT !.pendSearch = url, !.history = h, !.index = Len(h)]

\* lines 46-52: the effect on [location.search] queues setSelect(urlSelect)
\* for the search of its render
syncFromUrl(st) == [st EXCEPT !.pendSelect = urlSelect(st.fx.search)]

\* the passive effects left by the last commit run, in the order of their
\* declaration, each with the values of the render it belongs to; what they
\* queue is rendered later
flushPassiveEffects(st) ==
    LET a == IF st.fx.e1 THEN goSelect(st) ELSE st
        b == IF st.fx.e2 THEN syncFromUrl(a) ELSE a
    IN  [b EXCEPT !.fx = NoFx]

\* a commit with the given select and search: an effect is left to run when
\* its dependency differs from the one of the commit before
commit(st, sel, srch) ==
    [st EXCEPT !.select = sel, !.search = srch,
               !.fx = [e1 |-> sel # st.select, e2 |-> srch # st.search,
                       select |-> sel, search |-> srch]]

Pending(pend, cur) == IF pend = NoPend THEN cur ELSE pend

\* The render of a discrete event (a click, a popstate), which sets the
\* state named by what to val. The update is queued by the handler; the
\* render first runs the effects still waiting, whose updates come after it
\* in the queue. With split lanes the event's update is rendered alone and
\* the queued ones stay queued; with unified lanes everything queued is
\* rendered. The effects of this commit run before the event returns.
syncRender(st, what, val, lanes) ==
    LET f == flushPassiveEffects(st)
        wroteIt == IF what = "select" THEN st.fx.e2 ELSE st.fx.e1
        last == IF wroteIt
                THEN (IF what = "select" THEN f.pendSelect ELSE f.pendSearch)
                ELSE val
        sel == IF what = "select"
               THEN (IF lanes = "split" THEN val ELSE last)
               ELSE (IF lanes = "split" THEN f.select
                                        ELSE Pending(f.pendSelect, f.select))
        srch == IF what = "search"
                THEN (IF lanes = "split" THEN val ELSE last)
                ELSE (IF lanes = "split" THEN f.search
                                         ELSE Pending(f.pendSearch, f.search))
        left == IF lanes = "unified"
                THEN [f EXCEPT !.pendSelect = NoPend, !.pendSearch = NoPend]
                ELSE IF what = "select"
                     THEN [f EXCEPT !.pendSelect = IF wroteIt THEN last ELSE NoPend]
                     ELSE [f EXCEPT !.pendSearch = IF wroteIt THEN last ELSE NoPend]
    IN  flushPassiveEffects(commit(left, sel, srch))

SetDash(st) ==
    /\ d_select' = st.select
    /\ d_search' = st.search
    /\ d_pendSelect' = st.pendSelect
    /\ d_pendSearch' = st.pendSearch
    /\ d_fx' = st.fx
    /\ d_history' = st.history
    /\ d_index' = st.index

notDash == <<coreVars, fieldVars, projVars, dbVars>>

\* line 62: onClick={() => setSelect(item)}
Click(item) ==
    /\ d_pc = "on"
    /\ d_events < MaxEvents
    /\ d_events' = d_events + 1
    /\ SetDash(syncRender(Dash, "select", item, d_lanes))
    /\ UNCHANGED <<d_pc, d_lanes, notDash>>

\* back (-1) or forward (1): the browser moves to the entry, the router's
\* popstate listener sets its location
PopState(delta) ==
    /\ d_pc = "on"
    /\ d_events < MaxEvents
    /\ d_index + delta \in 1..Len(d_history)
    /\ d_events' = d_events + 1
    /\ SetDash(syncRender([Dash EXCEPT !.index = d_index + delta], "search",
                          d_history[d_index + delta], d_lanes))
    /\ UNCHANGED <<d_pc, d_lanes, notDash>>

\* the render of the queued updates of effects, in a task of its own: the
\* effects still waiting run first, everything queued is rendered, and the
\* effects of this commit are left for a later task
DefaultRender ==
    /\ d_pc = "on"
    /\ d_pendSelect # NoPend \/ d_pendSearch # NoPend
    /\ LET f == flushPassiveEffects(Dash)
           left == [f EXCEPT !.pendSelect = NoPend, !.pendSearch = NoPend]
       IN  SetDash(commit(left, Pending(f.pendSelect, f.select),
                                Pending(f.pendSearch, f.search)))
    /\ UNCHANGED <<d_pc, d_lanes, d_events, notDash>>

\* the task that runs the effects of a commit
FlushEffects ==
    /\ d_pc = "on"
    /\ d_fx.e1 \/ d_fx.e2
    /\ SetDash(flushPassiveEffects(Dash))
    /\ UNCHANGED <<d_pc, d_lanes, d_events, notDash>>

\* DashBoard is mounted on /dashboard with or without a select parameter:
\* lines 29-34 take select from the URL, and both effects run for the mount
DashInit ==
    /\ MergeIdle
    /\ PipeIdle
    /\ CacheIdle
    /\ StreamIdle
    /\ FieldIdle
    /\ ProjIdle
    /\ DbIdle
    /\ d_pc = "on"
    /\ d_lanes \in {"split", "unified"}
    /\ d_search \in {"absent", "bogus", "gpt"}
    /\ d_select = urlSelect(d_search)
    /\ d_pendSelect = NoPend
    /\ d_pendSearch = NoPend
    /\ d_fx = [e1 |-> TRUE, e2 |-> TRUE, select |-> d_select, search |-> d_search]
    /\ d_history = <<d_search>>
    /\ d_index = 1
    /\ d_events = 0

DashNext ==
    \/ \E i \in 1..Len(menu) : Click(menu[i])
    \/ \E delta \in {-1, 1} : PopState(delta)
    \/ DefaultRender
    \/ FlushEffects

\* the scheduler runs every task it has queued
SpecDash ==
    DashInit /\ [][DashNext]_vars /\ WF_vars(DefaultRender) /\ WF_vars(FlushEffects)

\* nothing is queued, no effect is waiting, and the tab shown is the one the
\* URL names
DashSettled ==
    /\ d_pendSelect = NoPend
    /\ d_pendSearch = NoPend
    /\ ~d_fx.e1
    /\ ~d_fx.e2
    /\ d_select = urlSelect(d_search)

\* C30: select and the URL's select parameter converge. Once the clicks and
\* traversals have stopped the two effects come to rest, with nothing queued
\* and select the item the URL names ("Account" when it names none), and
\* stay there: there is no endless navigate/setSelect exchange.
C30_SelectConverges == <>[]DashSettled

====
